---- MODULE Spec2Model ----
(***************************************************************************)
(* A model of the replicated bulletin board of src/server.py (the server   *)
(* that implements the three consistency models) and of src/client.py.     *)
(*                                                                         *)
(* One cluster of three servers; server 1 is the coordinator.  Every       *)
(* client is sequential (src/client.py: one menu loop, one request at a    *)
(* time), so a client has at most one request outstanding; each request    *)
(* is one handler thread of the server it was sent to.  A step of the      *)
(* model is one critical section of a handler ("with self.lock") or one    *)
(* RPC (send_message: the request, the peer's handler and the response).   *)
(* An RPC may fail at any time (send_message raises): the peer then does   *)
(* not handle the message.  A request that has been sent and waits for     *)
(* its handler changes nothing, so the sending of a request and the first  *)
(* step of its handler are one step; so are the last step of the handler   *)
(* and the client's receipt of the response.  `last` is the response the  *)
(* step just taken sent, and NoLast after a step that sent none.           *)
(***************************************************************************)
EXTENDS Integers, Sequences, FiniteSets, TLC

\* ------------------------------------------------------------- bounds
\* The number of write requests (post_article, reply_article) clients send.
MaxWrites == 2

\* The number of server addresses an operator lists at startup, and the
\* greatest value typed in for N, NR and NW.
MaxServers == 4
MaxQuorum == 4

\* ---------------------------------------------------------- constants
Servers == {1, 2, 3}
\* is_coordinator is true on exactly one server
Coord == 1
Clients == {"c1", "c2"}
\* the clients that send requests: two concurrent ones in Sequential mode,
\* one in the other modes, where the handlers run beside the background
\* threads of three servers
ClientsOf(m) == IF m = "sequential" THEN Clients ELSE {"c1"}
Modes == {"sequential", "read_your_writes", "quorum"}
\* Python's None, for parent_id of a root article and for the client_id
\* and write_counter of an article written outside Read-Your-Writes
None == 0
NoClient == "None"
\* the parent ids a client sends in reply_article
ParentIds == 1..(MaxWrites - 1)
\* (N, NR, NW) as entered at startup
QuorumConfigs == {<<3, 2, 2>>}

VARIABLES
    mode,                  \* consistency_model, the same on every server
    N, NR, NW,             \* the quorum parameters
    server_addresses,      \* self.server_addresses, the servers listed at startup
    article_id_counter,    \* Coordinator.article_id_counter of Sequential/coordinator.py
    article_list,          \* Coordinator.article_list of Sequential/coordinator.py
    handler,               \* handler[t]: the handle_client thread t of that Coordinator
    articles,              \* articles[s]: self.articles of server s
    next_article_id,       \* next_article_id[s]: self.next_article_id
    client_write_counters, \* client_write_counters[s][c]
    lock,                  \* lock[s]: the client whose handler holds self.lock
    write_counter,         \* write_counter[c]: Client.write_counter
    req,                   \* req[c]: the request of client c being handled
    last,                  \* the response the last step sent to a client
    nwrites,               \* write requests handled so far
    allocated,             \* history: the ids handed out, in order
    acked                  \* history: the writes answered post_success

vars == <<mode, N, NR, NW, server_addresses, article_id_counter, article_list, handler,
          articles, next_article_id, client_write_counters,
          lock, write_counter, req, last, nwrites, allocated, acked>>

\* ------------------------------------------------------------ helpers
Free == "free"

Article(article_id, parent_id, title, content, client_id, wc) ==
    [id |-> article_id, parent_id |-> parent_id, title |-> title,
     content |-> content, client_id |-> client_id, write_counter |-> wc]

\* the dictionaries the handlers put on the wire
ListEntry(a) == [id |-> a.id, parent_id |-> a.parent_id, title |-> a.title]

ContentEntryUntitled(a) ==
    [id |-> a.id, parent_id |-> a.parent_id, title |-> "",
     content |-> a.content]

ContentEntry(a) ==
    [id |-> a.id, parent_id |-> a.parent_id, title |-> a.title,
     content |-> a.content]

RECURSIVE SeqOfSet(_)
\* the elements of a set of integers in ascending order
SeqOfSet(S) ==
    IF S = {} THEN <<>>
    ELSE LET m == CHOOSE x \in S : \A y \in S : x <= y
         IN <<m>> \o SeqOfSet(S \ {m})

OthersAnyAddress(s) == SeqOfSet(Servers \ {s})
\* "for addr in self.server_addresses: if addr != (self.host, self.port)"
Others(s) == SeqOfSet(server_addresses \ {s})

Ids(store) == {store[i].id : i \in 1..Len(store)}

HasId(store, i) == \E k \in 1..Len(store) : store[k].id = i

\* next((a for a in self.articles if a.id == article_id), None)
FirstWithId(store, i) ==
    store[CHOOSE k \in 1..Len(store) :
              /\ store[k].id = i
              /\ \A j \in 1..(k - 1) : store[j].id # i]

Error(m) == [type |-> "error", message |-> m]

PostSuccess(i) == [type |-> "post_success", article_id |-> i]

IdleReq ==
    [pc |-> "idle", kind |-> "none", srv |-> Coord, parent_id |-> None,
     title |-> "", content |-> "", client_id |-> NoClient,
     write_counter |-> None, article_id |-> None, quorum |-> {},
     todo |-> <<>>, acks |-> {}, lo |-> None]

NoLast ==
    [kind |-> "none", client_id |-> NoClient, srv |-> Coord, arg |-> None,
     write_counter |-> None, quorum |-> {}, failed |-> {},
     resp |-> [type |-> "none"]]

\* the message a client sends: Client.post_article / reply_article /
\* read_articles / read_article_content.  post always carries one payload
\* and reply another, so that two articles differ in title and content
\* whenever they differ in kind.
Request(kind, s, parent_id, arg) ==
    [IdleReq EXCEPT !.kind = kind, !.srv = s, !.parent_id = parent_id,
                    !.title = IF kind = "post_article" THEN "T"
                              ELSE IF kind = "reply_article" THEN "R" ELSE "",
                    !.content = IF kind = "post_article" THEN "x"
                                ELSE IF kind = "reply_article" THEN "y" ELSE "",
                    !.article_id = arg]

WriteRequests(S) ==
    {Request("post_article", s, None, None) : s \in S}
    \cup {Request("reply_article", sp[1], sp[2], None) : sp \in S \X ParentIds}

ReadRequests ==
    {Request("read_articles", s, None, None) : s \in server_addresses}
    \cup {Request("read_article_content", si[1], None, si[2]) :
             si \in server_addresses \X (1..MaxWrites)}

IsWrite(r) == r.kind \in {"post_article", "reply_article"}

IsRead(r) == r.kind \in {"read_articles", "read_article_content"}

\* A step that answers a client and changes nothing else (a read, a
\* forward that fails) leads, after another such step, to the state it
\* leads to when taken alone: such steps are taken only after a step of
\* another kind.
CanObserve ==
    /\ ~IsRead(last)
    /\ last.resp # [type |-> "error", message |-> "Unable to contact coordinator"]

LockFreeAlways(s) == TRUE
\* "with self.lock:" can be entered
LockFree(s) == lock[s] = Free

BumpIdStuck(n) == n

BumpIdSkip(n) == n + 2
\* self.next_article_id += 1
BumpId(n) == n + 1

\* the connections Server.start of Sequential/coordinator.py accepts, one
\* handle_client thread each
Threads == {"t1", "t2", "t3"}

\* a thread that has not been started: article_id is the local variable of
\* post_article, loaded the value "self.article_id_counter += 1" has read,
\* sent the id of the response
IdleHandler == [pc |-> "idle", article_id |-> None, loaded |-> None, sent |-> None]

\* ---------------------------------------------------------------- Init
Init ==
    /\ mode \in Modes
    /\ \E q \in QuorumConfigs : N = q[1] /\ NR = q[2] /\ NW = q[3]
    /\ server_addresses = Servers
    /\ articles = [s \in Servers |-> <<>>]
    /\ next_article_id = [s \in Servers |-> 1]
    /\ client_write_counters = [s \in Servers |-> [c \in Clients |-> 0]]
    /\ lock = [s \in Servers |-> Free]
    /\ article_id_counter = 0
    /\ article_list = <<>>
    /\ handler = [t \in Threads |-> IdleHandler]
    /\ write_counter = [c \in Clients |-> 0]
    /\ req = [c \in Clients |-> IdleReq]
    /\ last = NoLast
    /\ nwrites = 0
    /\ allocated = <<>>
    /\ acked = {}

\* ----------------------------------------------------------- responses
\* The handler of request r returns `resp`; handle_connection sends it and
\* the client's send_message returns it.  The client is then back at its
\* menu.
Respond(c, r, resp) ==
    /\ req' = [req EXCEPT ![c] = IdleReq]
    /\ last' = [NoLast EXCEPT !.kind = r.kind, !.client_id = r.client_id,
                              !.srv = r.srv, !.arg = r.article_id,
                              !.write_counter = r.write_counter,
                              !.resp = resp]

\* a write answered post_success
Ack(r, i) ==
    [id |-> i, client_id |-> r.client_id, write_counter |-> r.write_counter,
     parent_id |-> r.parent_id, title |-> r.title, content |-> r.content]

\* handle_read_articles_sequential / handle_read_articles_read_your_writes
LocalReadArticles(s) ==
    [type |-> "articles_list",
     articles |-> [k \in 1..Len(articles[s]) |-> ListEntry(articles[s][k])]]

\* handle_read_article_content_sequential / _read_your_writes,
\* handle_get_article_content
LocalReadContent(s, i) ==
    IF HasId(articles[s], i)
    THEN [type |-> "article_content",
          article |-> ContentEntry(FirstWithId(articles[s], i))]
    ELSE Error("Article not found")

HandlerSelf(s) == s
\* The server whose handler allocates and appends for a post_article or
\* reply_article received by server s in Sequential and Quorum mode: "if
\* self.is_coordinator: ... else: response = self.forward_to_coordinator(
\* message); return response", the coordinator on every server.
Handler(s) == Coord

\* ---------------------------------------------------------- sequential
\* A write sent to a non-coordinator whose forward_to_coordinator raises:
\* the non-coordinator branch of handle_post_article_sequential /
\* handle_reply_article_sequential / _quorum
ForwardFail(c) ==
    /\ mode \in {"sequential", "quorum"}
    /\ req[c].pc = "idle"
    /\ CanObserve
    /\ \E r \in WriteRequests(server_addresses \ {Coord}) :
          /\ acked' = acked
          /\ Respond(c, r, Error("Unable to contact coordinator"))
    /\ UNCHANGED <<mode, N, NR, NW, server_addresses, article_id_counter,
                   article_list, handler, articles, next_article_id,
                   client_write_counters, lock, write_counter,
                   nwrites, allocated>>

\* handle_post_article_sequential / handle_reply_article_sequential on the
\* coordinator, for a write sent to it or forwarded to it (srv is the
\* server whose handler runs the write; a forwarding server only relays
\* the message and the response): take the lock, allocate, append; the
\* lock stays held for propagate_article_sequential
SeqAppend(c) ==
    /\ mode = "sequential"
    /\ req[c].pc = "idle"
    /\ nwrites < MaxWrites
    /\ nwrites' = nwrites + 1
    /\ \E s \in server_addresses : \E r \in WriteRequests({Handler(s)}) :
          LET h == r.srv
              i == next_article_id[h]
              a == Article(i, r.parent_id, r.title, r.content, NoClient, None)
          IN /\ LockFree(h)
             /\ lock' = [lock EXCEPT ![h] = c]
             /\ next_article_id' = [next_article_id EXCEPT ![h] = BumpId(i)]
             /\ allocated' = Append(allocated, i)
             /\ articles' = [articles EXCEPT ![h] = Append(@, a)]
             /\ req' = [req EXCEPT ![c] = [r EXCEPT !.pc = "prop",
                                                     !.article_id = i,
                                                     !.todo = Others(h)]]
    /\ last' = NoLast
    /\ UNCHANGED <<mode, N, NR, NW, server_addresses, article_id_counter,
                   article_list, handler, client_write_counters, write_counter,
                   acked>>

\* one send_message of propagate_article_sequential that succeeds: the peer
\* runs handle_new_article_sequential and answers article_ack
SeqPropagateOk(c) ==
    LET r == req[c]
        p == Head(r.todo)
        a == Article(r.article_id, r.parent_id, r.title, r.content, NoClient, None)
    IN /\ mode = "sequential"
       /\ r.pc = "prop" /\ r.todo # <<>>
       /\ LockFree(p)
       /\ articles' = [articles EXCEPT ![p] = Append(@, a)]
       /\ req' = [req EXCEPT ![c] = [r EXCEPT !.todo = Tail(r.todo),
                                               !.acks = r.acks \cup {p}]]
       /\ last' = NoLast
       /\ UNCHANGED <<mode, N, NR, NW, server_addresses, article_id_counter,
                   article_list, handler, next_article_id, client_write_counters,
                      lock, write_counter, nwrites, allocated,
                      acked>>

\* one send_message of propagate_article_sequential that raises
SeqPropagateFail(c) ==
    LET r == req[c]
    IN /\ mode = "sequential"
       /\ r.pc = "prop" /\ r.todo # <<>>
       /\ req' = [req EXCEPT ![c] = [r EXCEPT !.todo = Tail(r.todo)]]
       /\ last' = NoLast
       /\ UNCHANGED <<mode, N, NR, NW, server_addresses, article_id_counter,
                   article_list, handler, articles, next_article_id,
                      client_write_counters, lock, write_counter, nwrites, allocated, acked>>

PropagationDoneEarly(r) == TRUE

PropagationDoneNever(r) == FALSE

PropagationDoneAllAcked(r) == r.todo = <<>> /\ r.acks = Servers \ {Coord}
\* the "for addr in self.server_addresses" loop of
\* propagate_article_sequential has run to its end: every send_message has
\* returned or raised
PropagationDone(r) == r.todo = <<>>

\* the end of the "with self.lock" block and the return of post_success;
\* `failed` are the peers whose send_message raised
SeqRespond(c) ==
    LET r == req[c]
        sent == (server_addresses \ {Coord}) \ {r.todo[k] : k \in 1..Len(r.todo)}
    IN /\ mode = "sequential"
       /\ r.pc = "prop" /\ PropagationDone(r)
       /\ lock' = [lock EXCEPT ![Coord] = Free]
       /\ acked' = acked \cup {Ack(r, r.article_id)}
       /\ req' = [req EXCEPT ![c] = IdleReq]
       /\ last' = [NoLast EXCEPT !.kind = r.kind, !.srv = r.srv,
                                 !.arg = r.article_id,
                                 !.failed = sent \ r.acks,
                                 !.resp = PostSuccess(r.article_id)]
       /\ UNCHANGED <<mode, N, NR, NW, server_addresses, article_id_counter,
                   article_list, handler, articles, next_article_id,
                      client_write_counters, write_counter, nwrites,
                      allocated>>

\* handle_read_articles_sequential / handle_read_article_content_sequential
SeqRead(c) ==
    /\ mode = "sequential"
    /\ req[c].pc = "idle"
    /\ CanObserve
    /\ \E r \in ReadRequests :
          /\ LockFree(r.srv)
          /\ acked' = acked
          /\ Respond(c, r, IF r.kind = "read_articles"
                           THEN LocalReadArticles(r.srv)
                           ELSE LocalReadContent(r.srv, r.article_id))
    /\ UNCHANGED <<mode, N, NR, NW, server_addresses, article_id_counter,
                   article_list, handler, articles, next_article_id,
                   client_write_counters, lock, write_counter,
                   nwrites, allocated>>

NextSeq ==
    \E c \in ClientsOf("sequential") :
        \/ ForwardFail(c)
        \/ SeqAppend(c)
        \/ SeqPropagateOk(c)
        \/ SeqPropagateFail(c)
        \/ SeqRespond(c)
        \/ SeqRead(c)

InitSeq == Init /\ mode = "sequential"

SpecSeq == InitSeq /\ [][NextSeq]_vars

\* Sequential mode when no RPC fails: every forward and every new_article
\* is delivered and answered, and a handler that can take its next step
\* takes it (handle_connection runs every handler to its return).
NextSeqNoFailure ==
    \E c \in ClientsOf("sequential") :
        \/ SeqAppend(c)
        \/ SeqPropagateOk(c)
        \/ SeqRespond(c)
        \/ SeqRead(c)

SpecSeqNoFailure ==
    /\ InitSeq
    /\ [][NextSeqNoFailure]_vars
    /\ \A c \in Clients : WF_vars(SeqPropagateOk(c)) /\ WF_vars(SeqRespond(c))

\* ---------------------------------------------------- read your writes
MergeNone(store, incoming) == store

MergeReplace(store, incoming) == incoming

MergeAll(store, incoming) == store \o incoming

RECURSIVE MergeMissing(_, _)
\* "for article_data in articles: if no article of self.articles has its
\* id: self.articles.append(...)", of handle_new_articles and synchronize
MergeMissing(store, incoming) ==
    IF incoming = <<>> THEN store
    ELSE MergeMissing(IF HasId(store, Head(incoming).id) THEN store
                      ELSE Append(store, Head(incoming)),
                      Tail(incoming))

Max(a, b) == IF a >= b THEN a ELSE b

MatchingAll(store, client_id, lo, hi) == store

MatchingUpTo(store, client_id, lo, hi) ==
    SelectSeq(store, LAMBDA a : a.client_id = client_id /\ a.write_counter \in 1..hi)

RECURSIVE Matching(_, _, _, _)
\* handle_request_missing_articles: "[a for a in self.articles if
\* a.client_id == client_id and a.write_counter in counters]", the
\* counters being lo..hi
Matching(store, client_id, lo, hi) ==
    IF store = <<>> THEN <<>>
    ELSE (IF /\ Head(store).client_id = client_id
             /\ Head(store).write_counter \in lo..hi
          THEN <<Head(store)>> ELSE <<>>)
         \o Matching(Tail(store), client_id, lo, hi)

RECURSIVE CountersAfterSet(_, _)
CountersAfterSet(cwc, added) ==
    IF added = <<>> THEN cwc
    ELSE LET a == Head(added)
         IN CountersAfterSet([cwc EXCEPT ![a.client_id] = a.write_counter],
                             Tail(added))

CountersAfterNone(cwc, added) == cwc

RECURSIVE CountersAfter(_, _)
\* "self.client_write_counters[client_id] = max(self.client_write_counters
\* .get(client_id, 0), write_counter)" for each article of `added`
CountersAfter(cwc, added) ==
    IF added = <<>> THEN cwc
    ELSE LET a == Head(added)
         IN CountersAfter([cwc EXCEPT ![a.client_id] = Max(@, a.write_counter)],
                          Tail(added))

\* the articles handle_new_articles appends: those of `incoming` whose id
\* the store does not hold yet
Added(store, incoming) ==
    SubSeq(MergeMissing(store, incoming), Len(store) + 1,
           Len(MergeMissing(store, incoming)))

NextCounterStuck(n) == n
\* Client.post_article / reply_article: "self.write_counter += 1"
NextCounter(n) == n + 1

\* Client.connect on server s ahead of a request of client c, and
\* handle_client_connect up to the end of its "with self.lock" block.
\* Client.post_article / reply_article have incremented
\* Client.write_counter before they connect; the request itself is sent
\* once connect_ack has arrived, so its kind and payload are chosen then.
\* A connect ahead of a read that finds no gap changes no server state.
RywConnect(c) ==
    /\ mode = "read_your_writes"
    /\ req[c].pc = "idle"
    /\ \E s \in server_addresses, kind \in {"write", "read"} :
          LET wc == IF kind = "write" THEN NextCounter(write_counter[c])
                    ELSE write_counter[c]
              latest_counter == client_write_counters[s][c]
              gap == latest_counter < wc
          IN /\ kind = "write" => nwrites < MaxWrites
             /\ (kind = "read" /\ ~gap) => CanObserve
             /\ nwrites' = IF kind = "write" THEN nwrites + 1 ELSE nwrites
             /\ LockFree(s)
             /\ write_counter' = [write_counter EXCEPT ![c] = wc]
             /\ req' = [req EXCEPT ![c] =
                           [IdleReq EXCEPT !.pc = IF gap THEN "fetch" ELSE "connected",
                                           !.kind = kind, !.srv = s,
                                           !.client_id = c, !.write_counter = wc,
                                           !.lo = IF gap THEN latest_counter + 1 ELSE None,
                                           !.todo = IF gap THEN Others(s) ELSE <<>>]]
    /\ last' = NoLast
    /\ UNCHANGED <<mode, N, NR, NW, server_addresses, article_id_counter,
                   article_list, handler, articles, next_article_id,
                   client_write_counters, lock, allocated, acked>>

\* get_missing_articles: "for article_data in articles:
\* self.articles.append(article)"
FetchAppend(store, incoming) == store \o incoming

\* one round of the loop of get_missing_articles that succeeds: the peer
\* answers request_missing_articles by handle_request_missing_articles and
\* the articles it sends are appended under the lock
RywFetchOk(c) ==
    LET r == req[c]
        s == r.srv
        p == Head(r.todo)
        got == Matching(articles[p], r.client_id, r.lo, r.write_counter)
    IN /\ mode = "read_your_writes"
       /\ r.pc = "fetch" /\ r.todo # <<>>
       /\ LockFree(p) /\ LockFree(s)
       /\ articles' = [articles EXCEPT ![s] = FetchAppend(@, got)]
       /\ client_write_counters' =
             [client_write_counters EXCEPT ![s] = CountersAfter(@, got)]
       /\ req' = [req EXCEPT ![c] = [r EXCEPT !.todo = Tail(r.todo)]]
       /\ last' = NoLast
       /\ UNCHANGED <<mode, N, NR, NW, server_addresses, article_id_counter,
                   article_list, handler, next_article_id, lock, write_counter,
                      nwrites, allocated, acked>>

\* one round of the loop of get_missing_articles whose send_message raises
RywFetchFail(c) ==
    LET r == req[c]
    IN /\ mode = "read_your_writes"
       /\ r.pc = "fetch" /\ r.todo # <<>>
       /\ req' = [req EXCEPT ![c] = [r EXCEPT !.todo = Tail(r.todo)]]
       /\ last' = NoLast
       /\ UNCHANGED <<mode, N, NR, NW, server_addresses, article_id_counter,
                   article_list, handler, articles, next_article_id,
                      client_write_counters, lock, write_counter,
                      nwrites, allocated, acked>>

FetchDoneEarly(r) == TRUE
\* get_missing_articles has returned: its loop over server_addresses has
\* run to its end, every send_message has returned or raised
FetchDone(r) == r.todo = <<>>

\* handle_client_connect returns connect_ack, once get_missing_articles
\* has returned or at once when no counter is missing
RywConnectAck(c) ==
    LET r == req[c]
    IN /\ mode = "read_your_writes"
       /\ \/ r.pc = "fetch" /\ FetchDone(r)
          \/ r.pc = "connected"
       /\ req' = [req EXCEPT ![c] = [r EXCEPT !.pc = "acked"]]
       /\ last' = [NoLast EXCEPT !.kind = "client_connect", !.client_id = c,
                                 !.srv = r.srv,
                                 !.write_counter = r.write_counter,
                                 !.resp = [type |-> "connect_ack"]]
       /\ UNCHANGED <<mode, N, NR, NW, server_addresses, article_id_counter,
                   article_list, handler, articles, next_article_id,
                      client_write_counters, lock, write_counter,
                      nwrites, allocated, acked>>

\* handle_read_articles_read_your_writes /
\* handle_read_article_content_read_your_writes
RywRead(c) ==
    /\ mode = "read_your_writes"
    /\ req[c].pc = "acked" /\ req[c].kind = "read"
    /\ LockFree(req[c].srv)
    /\ acked' = acked
    /\ \E q \in ReadRequests :
          LET r == [q EXCEPT !.srv = req[c].srv, !.client_id = c,
                             !.write_counter = req[c].write_counter]
          IN /\ q.srv = req[c].srv
             /\ Respond(c, r, IF r.kind = "read_articles"
                              THEN LocalReadArticles(r.srv)
                              ELSE LocalReadContent(r.srv, r.article_id))
    /\ UNCHANGED <<mode, N, NR, NW, server_addresses, article_id_counter,
                   article_list, handler, articles, next_article_id,
                   client_write_counters, lock, write_counter,
                   nwrites, allocated>>

\* get_next_article_id that succeeds: on the coordinator under its own
\* lock, on another server by get_next_article_id sent to the coordinator
\* and answered by handle_get_next_article_id
RywAllocOk(c) ==
    LET i == next_article_id[Coord]
    IN /\ mode = "read_your_writes"
       /\ req[c].pc = "acked" /\ req[c].kind = "write"
       /\ LockFree(Coord)
       /\ next_article_id' = [next_article_id EXCEPT ![Coord] = BumpId(i)]
       /\ allocated' = Append(allocated, i)
       /\ \E q \in WriteRequests({req[c].srv}) :
             req' = [req EXCEPT ![c] =
                       [q EXCEPT !.pc = "append", !.article_id = i,
                                 !.client_id = c,
                                 !.write_counter = req[c].write_counter]]
       /\ last' = NoLast
       /\ UNCHANGED <<mode, N, NR, NW, server_addresses, article_id_counter,
                   article_list, handler, articles, client_write_counters, lock,
                      write_counter, nwrites, acked>>

\* get_next_article_id on a non-coordinator whose send_message raises: it
\* returns None and the handler answers with the error
RywAllocFail(c) ==
    /\ mode = "read_your_writes"
    /\ req[c].pc = "acked" /\ req[c].kind = "write" /\ req[c].srv # Coord
    /\ acked' = acked
    /\ \E q \in WriteRequests({req[c].srv}) :
          Respond(c, [q EXCEPT !.client_id = c,
                               !.write_counter = req[c].write_counter],
                  Error("Failed to get article ID from coordinator"))
    /\ UNCHANGED <<mode, N, NR, NW, server_addresses, article_id_counter,
                   article_list, handler, articles, next_article_id,
                   client_write_counters, lock, write_counter,
                   nwrites, allocated>>

\* the "with self.lock" block of handle_post_article_read_your_writes /
\* handle_reply_article_read_your_writes and the return of post_success
RywAppend(c) ==
    LET r == req[c]
        s == r.srv
        a == Article(r.article_id, r.parent_id, r.title, r.content,
                     r.client_id, r.write_counter)
    IN /\ mode = "read_your_writes"
       /\ r.pc = "append"
       /\ LockFree(s)
       /\ articles' = [articles EXCEPT ![s] = Append(@, a)]
       /\ client_write_counters' =
             [client_write_counters EXCEPT ![s][r.client_id] = r.write_counter]
       /\ acked' = acked \cup {Ack(r, r.article_id)}
       /\ Respond(c, r, PostSuccess(r.article_id))
       /\ UNCHANGED <<mode, N, NR, NW, server_addresses, article_id_counter,
                   article_list, handler, next_article_id, lock, write_counter,
                      nwrites, allocated>>

\* One send_message of propagate_articles of server s that succeeds, with
\* the copy of self.articles taken under the lock just before it: peer p
\* runs handle_new_articles.  A send_message that raises changes nothing,
\* so a round is any sequence of these steps.
RywPropagate(s, p) ==
    LET incoming == articles[s]
    IN /\ mode = "read_your_writes"
       /\ s \in server_addresses /\ p \in server_addresses
       /\ s # p
       /\ LockFree(s) /\ LockFree(p)
       /\ articles' = [articles EXCEPT ![p] = MergeMissing(@, incoming)]
       /\ client_write_counters' =
             [client_write_counters EXCEPT
                 ![p] = CountersAfter(@, Added(articles[p], incoming))]
       /\ last' = NoLast
       /\ UNCHANGED <<mode, N, NR, NW, server_addresses, article_id_counter,
                   article_list, handler, next_article_id, lock, write_counter,
                      req, nwrites, allocated, acked>>

NextRYW ==
    \/ \E c \in ClientsOf("read_your_writes") :
          \/ RywConnect(c)
          \/ RywFetchOk(c)
          \/ RywFetchFail(c)
          \/ RywConnectAck(c)
          \/ RywRead(c)
          \/ RywAllocOk(c)
          \/ RywAllocFail(c)
          \/ RywAppend(c)
    \/ \E s, p \in Servers : RywPropagate(s, p)

InitRYW == Init /\ mode = "read_your_writes"

SpecRYW == InitRYW /\ [][NextRYW]_vars

\* The client only writes, and propagate_articles runs for ever on every
\* server with its peers reachable: "while True: time.sleep(5); ... for addr in
\* self.server_addresses: self.send_message(addr, message)", so a send that
\* would change the receiver is made at some time
\* src/ryw/server.py, the Read-Your-Writes server on its own.  Its
\* handle_post_article / handle_reply_article do not look at the value
\* get_next_article_id returns: on a non-coordinator whose send_message to
\* the coordinator raises, or is answered with an error, the id is None,
\* the article is appended with it and post_success is returned.
RywAllocNone(c) ==
    LET s == req[c].srv
    IN /\ mode = "read_your_writes"
       /\ req[c].pc = "acked" /\ req[c].kind = "write" /\ s # Coord
       /\ LockFree(s)
       /\ \E q \in WriteRequests({s}) :
             LET r == [q EXCEPT !.client_id = c,
                                !.write_counter = req[c].write_counter]
                 a == Article(None, r.parent_id, r.title, r.content,
                              r.client_id, r.write_counter)
             IN /\ articles' = [articles EXCEPT ![s] = Append(@, a)]
                /\ client_write_counters' =
                      [client_write_counters EXCEPT ![s][c] = r.write_counter]
                /\ acked' = acked \cup {Ack(r, None)}
                /\ Respond(c, r, PostSuccess(None))
       /\ UNCHANGED <<mode, N, NR, NW, server_addresses, article_id_counter,
                   article_list, handler, next_article_id, lock, write_counter,
                      nwrites, allocated>>

\* The handle_message of src/ryw/server.py has no 'new_articles' branch:
\* the message of its propagate_articles is answered 'Unknown message
\* type' and changes no server.
NextRYWStandalone ==
    \E c \in ClientsOf("read_your_writes") :
        \/ RywConnect(c)
        \/ RywFetchOk(c)
        \/ RywFetchFail(c)
        \/ RywConnectAck(c)
        \/ RywRead(c)
        \/ RywAllocOk(c)
        \/ RywAllocNone(c)
        \/ RywAppend(c)

SpecRYWStandalone == InitRYW /\ [][NextRYWStandalone]_vars

NextRYWWrites ==
    \/ \E c \in ClientsOf("read_your_writes") :
          \/ RywConnect(c) /\ req'[c].kind = "write"
          \/ RywFetchOk(c)
          \/ RywFetchFail(c)
          \/ RywConnectAck(c)
          \/ RywAllocOk(c)
          \/ RywAllocFail(c)
          \/ RywAppend(c)
    \/ \E s, p \in Servers : RywPropagate(s, p)

SpecRYWFair ==
    /\ InitRYW
    /\ [][NextRYWWrites]_vars
    /\ \A s, p \in Servers : WF_vars(RywPropagate(s, p))

\* -------------------------------------------------------------- quorum
Range(q) == {q[k] : k \in 1..Len(q)}

SeqsOver(S, n) ==
    {q \in [1..n -> S] : \A j, k \in 1..n : j # k => q[j] # q[k]}

Min(a, b) == IF a <= b THEN a ELSE b

\* select_quorum: random.sample(servers, min(quorum_size, len(servers))),
\* every list of that many distinct servers
SelectQuorum(quorum_size) ==
    SeqsOver(server_addresses,
             Min(quorum_size, Cardinality(server_addresses)))

FromWireNoContent(a) == Article(a.id, a.parent_id, a.title, "", NoClient, None)
\* the Article(...) a server builds from an entry of write_article or of
\* the response to get_articles
FromWire(a) == Article(a.id, a.parent_id, a.title, a.content, NoClient, None)

\* handle_get_articles, as the caller reads its response
GetArticles(s) ==
    [k \in 1..Len(articles[s]) |-> FromWire(ContentEntry(articles[s][k]))]

\* handle_post_article_quorum / handle_reply_article_quorum on the
\* coordinator, for a write sent to it or forwarded to it: allocate under
\* the lock, select the write quorum
QuorumAlloc(c) ==
    /\ mode = "quorum"
    /\ req[c].pc = "idle"
    /\ nwrites < MaxWrites
    /\ nwrites' = nwrites + 1
    /\ \E s \in server_addresses :
       \E r \in WriteRequests({Handler(s)}), q \in SelectQuorum(NW) :
          LET h == r.srv
              i == next_article_id[h]
          IN /\ LockFree(h)
             /\ next_article_id' = [next_article_id EXCEPT ![h] = BumpId(i)]
             /\ allocated' = Append(allocated, i)
             /\ req' = [req EXCEPT ![c] = [r EXCEPT !.pc = "write",
                                                     !.article_id = i,
                                                     !.quorum = Range(q),
                                                     !.todo = q]]
    /\ last' = NoLast
    /\ UNCHANGED <<mode, N, NR, NW, server_addresses, article_id_counter,
                   article_list, handler, articles, client_write_counters, lock,
                   write_counter, acked>>

\* the next member of the write quorum is the coordinator: "Write to self"
QuorumWriteSelf(c) ==
    LET r == req[c]
        a == Article(r.article_id, r.parent_id, r.title, r.content, NoClient, None)
    IN /\ mode = "quorum"
       /\ r.pc = "write" /\ r.todo # <<>> /\ Head(r.todo) = Coord
       /\ LockFree(Coord)
       /\ articles' = [articles EXCEPT ![Coord] = Append(@, a)]
       /\ req' = [req EXCEPT ![c] = [r EXCEPT !.todo = Tail(r.todo),
                                               !.acks = r.acks \cup {Coord}]]
       /\ last' = NoLast
       /\ UNCHANGED <<mode, N, NR, NW, server_addresses, article_id_counter,
                   article_list, handler, next_article_id, client_write_counters,
                      lock, write_counter, nwrites, allocated,
                      acked>>

\* write_article sent to the next member, which runs handle_write_article
\* and answers write_ack
QuorumWriteOk(c) ==
    LET r == req[c]
        p == Head(r.todo)
        a == FromWire(ContentEntry(
                 Article(r.article_id, r.parent_id, r.title, r.content, NoClient, None)))
    IN /\ mode = "quorum"
       /\ r.pc = "write" /\ r.todo # <<>> /\ p # Coord
       /\ LockFree(p)
       /\ articles' = [articles EXCEPT ![p] = Append(@, a)]
       /\ req' = [req EXCEPT ![c] = [r EXCEPT !.todo = Tail(r.todo),
                                               !.acks = r.acks \cup {p}]]
       /\ last' = NoLast
       /\ UNCHANGED <<mode, N, NR, NW, server_addresses, article_id_counter,
                   article_list, handler, next_article_id, client_write_counters,
                      lock, write_counter, nwrites, allocated,
                      acked>>

\* write_article to the next member raises: no acknowledgment
QuorumWriteFail(c) ==
    LET r == req[c]
    IN /\ mode = "quorum"
       /\ r.pc = "write" /\ r.todo # <<>> /\ Head(r.todo) # Coord
       /\ req' = [req EXCEPT ![c] = [r EXCEPT !.todo = Tail(r.todo)]]
       /\ last' = NoLast
       /\ UNCHANGED <<mode, N, NR, NW, server_addresses, article_id_counter,
                   article_list, handler, articles, next_article_id,
                      client_write_counters, lock, write_counter, nwrites, allocated, acked>>

EnoughAcksOffByOne(acks) == Cardinality(acks) >= NW - 1
\* "if len(acknowledgments) >= self.NW"
EnoughAcks(acks) == Cardinality(acks) >= NW

QuorumRespond(c) ==
    LET r == req[c]
        ok == EnoughAcks(r.acks)
    IN /\ mode = "quorum"
       /\ r.pc = "write" /\ r.todo = <<>>
       /\ acked' = IF ok THEN acked \cup {Ack(r, r.article_id)} ELSE acked
       /\ req' = [req EXCEPT ![c] = IdleReq]
       /\ last' = [NoLast EXCEPT
                     !.kind = r.kind, !.srv = r.srv,
                     !.arg = r.article_id, !.quorum = r.quorum,
                     !.failed = r.quorum \ r.acks,
                     !.resp = IF ok THEN PostSuccess(r.article_id)
                              ELSE Error("Failed to write to quorum")]
       /\ UNCHANGED <<mode, N, NR, NW, server_addresses, article_id_counter,
                   article_list, handler, articles, next_article_id,
                      client_write_counters, lock, write_counter,
                      nwrites, allocated>>

LastWithId(store, i) ==
    store[CHOOSE k \in 1..Len(store) :
              /\ store[k].id = i
              /\ \A j \in (k + 1)..Len(store) : store[j].id # i]

\* "for article in self.articles: articles_dict[article.id] = article"
DictSelf(d, store) ==
    [i \in DOMAIN d \cup Ids(store) |->
        IF i \in Ids(store) THEN LastWithId(store, i) ELSE d[i]]

DictRemoteIgnored(d, store) == d
\* "if article_id not in articles_dict: articles_dict[article_id] = article"
DictRemote(d, store) ==
    [i \in DOMAIN d \cup Ids(store) |->
        IF i \in DOMAIN d THEN d[i] ELSE FirstWithId(store, i)]

RECURSIVE CollectArticles(_, _, _, _)
\* the loop of handle_read_articles_quorum over the read quorum q on server
\* s; the RPCs to the members in `failed` raise
CollectArticles(s, q, failed, d) ==
    IF q = <<>> THEN d
    ELSE CollectArticles(s, Tail(q), failed,
            IF Head(q) = s THEN DictSelf(d, articles[s])
            ELSE IF Head(q) \in failed THEN d
            ELSE DictRemote(d, GetArticles(Head(q))))

UnsortedList(d) ==
    LET ids == SeqOfSet(DOMAIN d)
    IN [k \in 1..Len(ids) |-> ListEntry(d[ids[Len(ids) + 1 - k]])]

\* "articles_list.sort(key=lambda x: x['id'])"
SortedList(d) ==
    LET ids == SeqOfSet(DOMAIN d)
    IN [k \in 1..Len(ids) |-> ListEntry(d[ids[k]])]

QuorumReadArticlesAbort(s, q, failed) ==
    IF failed = {}
    THEN [type |-> "articles_list",
          articles |-> SortedList(CollectArticles(s, q, failed, <<>>))]
    ELSE Error("Failed to read from quorum")

\* handle_read_articles_quorum
QuorumReadArticles(s, q, failed) ==
    [type |-> "articles_list",
     articles |-> SortedList(CollectArticles(s, q, failed, <<>>))]

RECURSIVE QuorumReadContent(_, _, _, _)
\* handle_read_article_content_quorum: the first member of the quorum that
\* has the article
QuorumReadContent(s, q, failed, i) ==
    IF q = <<>> THEN Error("Article not found")
    ELSE IF Head(q) \notin failed /\ HasId(articles[Head(q)], i)
         THEN [type |-> "article_content",
               article |-> ContentEntry(FirstWithId(articles[Head(q)], i))]
         ELSE QuorumReadContent(s, Tail(q), failed, i)

QuorumReadRepair(c) ==
    /\ mode = "quorum"
    /\ req[c].pc = "idle"
    /\ CanObserve
    /\ \E r \in ReadRequests, q \in SelectQuorum(NR) :
          /\ acked' = acked
          /\ req' = req
          /\ last' = [NoLast EXCEPT
                        !.kind = r.kind, !.srv = r.srv, !.arg = r.article_id,
                        !.resp = IF r.kind = "read_articles"
                                 THEN QuorumReadArticles(r.srv, q, {})
                                 ELSE QuorumReadContent(r.srv, q, {}, r.article_id)]
          /\ articles' = [articles EXCEPT
                             ![r.srv] = MergeMissing(@, GetArticles(q[1]))]
    /\ UNCHANGED <<mode, N, NR, NW, server_addresses, article_id_counter,
                   article_list, handler, next_article_id,
                   client_write_counters, lock, write_counter,
                   nwrites, allocated>>

\* A read in Quorum mode.  The handler changes no state and the stores
\* only grow, so its RPCs are taken together, in one step.
QuorumRead(c) ==
    /\ mode = "quorum"
    /\ req[c].pc = "idle"
    /\ CanObserve
    /\ \E r \in ReadRequests, q \in SelectQuorum(NR) :
         \E failed \in SUBSET (Range(q) \ {r.srv}) :
          /\ acked' = acked
          /\ req' = req
          /\ last' = [NoLast EXCEPT
                        !.kind = r.kind, !.srv = r.srv,
                        !.arg = r.article_id, !.failed = failed,
                        !.resp = IF r.kind = "read_articles"
                                 THEN QuorumReadArticles(r.srv, q, failed)
                                 ELSE QuorumReadContent(r.srv, q, failed, r.article_id)]
    /\ UNCHANGED <<mode, N, NR, NW, server_addresses, article_id_counter,
                   article_list, handler, articles, next_article_id,
                   client_write_counters, lock, write_counter,
                   nwrites, allocated>>

\* One pull of synchronize: get_articles from peer p, answered by
\* handle_get_articles, and the merge under the lock.  A pull that raises
\* changes nothing, so the pulls of the loop, which visits the peers in
\* turn for ever, are any sequence of pulls.
Synchronize(s, p) ==
    /\ mode = "quorum"
    /\ s \in server_addresses /\ p \in server_addresses
    /\ s # p
    /\ LockFree(s) /\ LockFree(p)
    /\ articles' = [articles EXCEPT ![s] = MergeMissing(@, GetArticles(p))]
    /\ last' = NoLast
    /\ UNCHANGED <<mode, N, NR, NW, server_addresses, article_id_counter,
                   article_list, handler, next_article_id, client_write_counters,
                   lock, write_counter, req, nwrites, allocated,
                   acked>>

NextQuorum ==
    \/ \E c \in ClientsOf("quorum") :
          \/ ForwardFail(c)
          \/ QuorumAlloc(c)
          \/ QuorumWriteSelf(c)
          \/ QuorumWriteOk(c)
          \/ QuorumWriteFail(c)
          \/ QuorumRespond(c)
          \/ QuorumRead(c)
    \/ \E s, p \in Servers : Synchronize(s, p)

InitQuorum == Init /\ mode = "quorum"

SpecQuorum == InitQuorum /\ [][NextQuorum]_vars

\* The writes and the anti-entropy thread alone, the thread running for
\* ever with its peers reachable: "while True: time.sleep(30); for
\* server_addr in self.server_addresses: ..." pulls from every peer again
\* and again, so a pull that would change the puller's store is taken at
\* some time.
NextSync ==
    \/ \E c \in ClientsOf("quorum") :
          \/ QuorumAlloc(c)
          \/ QuorumWriteSelf(c)
          \/ QuorumWriteOk(c)
          \/ QuorumWriteFail(c)
          \/ QuorumRespond(c)
    \/ \E s, p \in Servers : Synchronize(s, p)

SpecSync ==
    /\ InitQuorum
    /\ [][NextSync]_vars
    /\ \A s, p \in Servers : WF_vars(Synchronize(s, p))

\* --------------------------------------------------- startup in Quorum mode
\* __main__: "if NR + NW <= N or NW <= N / 2: ... sys.exit(1)", the
\* configurations that start a server
Accepted(n, nr, nw) == ~(nr + nw <= n \/ 2 * nw <= n)

\* A Quorum cluster as the operator can start it: N, NR and NW are typed in
\* and validated; the server list is typed in after them, the server's own
\* address first, and is not compared with N.
InitStartup ==
    /\ mode = "quorum"
    /\ N \in 1..MaxQuorum /\ NR \in 0..MaxQuorum /\ NW \in 0..MaxQuorum
    /\ Accepted(N, NR, NW)
    /\ server_addresses \in {L \in SUBSET (1..MaxServers) : Coord \in L}
    /\ articles = [s \in Servers |-> <<>>]
    /\ next_article_id = [s \in Servers |-> 1]
    /\ client_write_counters = [s \in Servers |-> [c \in Clients |-> 0]]
    /\ lock = [s \in Servers |-> Free]
    /\ article_id_counter = 0
    /\ article_list = <<>>
    /\ handler = [t \in Threads |-> IdleHandler]
    /\ write_counter = [c \in Clients |-> 0]
    /\ req = [c \in Clients |-> IdleReq]
    /\ last = NoLast
    /\ nwrites = 0
    /\ allocated = <<>>
    /\ acked = {}

\* "write_quorum = self.select_quorum(self.NW)"; `last` records the call
\* and the quorum returned
SelectWriteQuorum ==
    /\ \E q \in SelectQuorum(NW) :
          last' = [NoLast EXCEPT !.kind = "select_quorum", !.arg = NW,
                                 !.quorum = Range(q)]
    /\ UNCHANGED <<mode, N, NR, NW, server_addresses, article_id_counter,
                   article_list, handler, articles,
                   next_article_id, client_write_counters, lock,
                   write_counter, req, nwrites, allocated, acked>>

\* "read_quorum = self.select_quorum(self.NR)"
SelectReadQuorum ==
    /\ \E q \in SelectQuorum(NR) :
          last' = [NoLast EXCEPT !.kind = "select_quorum", !.arg = NR,
                                 !.quorum = Range(q)]
    /\ UNCHANGED <<mode, N, NR, NW, server_addresses, article_id_counter,
                   article_list, handler, articles,
                   next_article_id, client_write_counters, lock,
                   write_counter, req, nwrites, allocated, acked>>

NextStartup == SelectWriteQuorum \/ SelectReadQuorum

SpecStartup == InitStartup /\ [][NextStartup]_vars

\* ------------------------------------------------- a cluster of one server
\* __main__ with a server list that holds the server's own address alone,
\* which is also the coordinator's address (is_coordinator is True), and
\* N = NR = NW = 1, which the validation of Quorum mode accepts.
InitSingle ==
    /\ mode \in Modes
    /\ N = 1 /\ NR = 1 /\ NW = 1
    /\ server_addresses = {Coord}
    /\ articles = [s \in Servers |-> <<>>]
    /\ next_article_id = [s \in Servers |-> 1]
    /\ client_write_counters = [s \in Servers |-> [c \in Clients |-> 0]]
    /\ lock = [s \in Servers |-> Free]
    /\ article_id_counter = 0
    /\ article_list = <<>>
    /\ handler = [t \in Threads |-> IdleHandler]
    /\ write_counter = [c \in Clients |-> 0]
    /\ req = [c \in Clients |-> IdleReq]
    /\ last = NoLast
    /\ nwrites = 0
    /\ allocated = <<>>
    /\ acked = {}

\* The steps of the handlers that make no call of send_message: every loop
\* "for addr in self.server_addresses: if addr != (self.host, self.port)"
\* has an empty body, forward_to_coordinator is not reached, and
\* select_quorum returns the server itself.
NextSingle ==
    \/ \E c \in ClientsOf("sequential") :
          \/ SeqAppend(c)
          \/ SeqRespond(c)
          \/ SeqRead(c)
    \/ \E c \in ClientsOf("read_your_writes") :
          \/ RywConnect(c)
          \/ RywConnectAck(c)
          \/ RywRead(c)
          \/ RywAllocOk(c)
          \/ RywAppend(c)
    \/ \E c \in ClientsOf("quorum") :
          \/ QuorumAlloc(c)
          \/ QuorumWriteSelf(c)
          \/ QuorumRespond(c)
          \/ QuorumRead(c)

SpecSingle == InitSingle /\ [][NextSingle]_vars

\* ------------------------------- the Coordinator of Sequential/coordinator.py
\* Server.start accepts a connection and starts handle_client on a thread
\* of its own; handle_client of Coordinator reads a "post" request and
\* calls post_article, which runs "article_id = self.article_id_counter"
\* outside the lock
PostRead(t) ==
    /\ handler[t].pc = "idle"
    /\ handler' = [handler EXCEPT ![t] = [@ EXCEPT !.pc = "load",
                                                   !.article_id = article_id_counter]]
    /\ UNCHANGED <<mode, N, NR, NW, server_addresses, article_id_counter, article_list,
                   articles, next_article_id, client_write_counters, lock,
                   write_counter, req, last, nwrites, allocated, acked>>

\* "self.article_id_counter += 1", outside the lock: the attribute is
\* loaded,
PostLoad(t) ==
    /\ handler[t].pc = "load"
    /\ handler' = [handler EXCEPT ![t] = [@ EXCEPT !.pc = "store",
                                                   !.loaded = article_id_counter]]
    /\ UNCHANGED <<mode, N, NR, NW, server_addresses, article_id_counter, article_list,
                   articles, next_article_id, client_write_counters, lock,
                   write_counter, req, last, nwrites, allocated, acked>>

\* and the sum is stored; another thread can run between the two
PostStore(t) ==
    /\ handler[t].pc = "store"
    /\ article_id_counter' = handler[t].loaded + 1
    /\ handler' = [handler EXCEPT ![t] = [@ EXCEPT !.pc = "append"]]
    /\ UNCHANGED <<mode, N, NR, NW, server_addresses, article_list,
                   articles, next_article_id, client_write_counters, lock,
                   write_counter, req, last, nwrites, allocated, acked>>

\* "with self.lock: self.article_list.append(Article(article_id, title,
\* content))"
PostAppend(t) ==
    /\ handler[t].pc = "append"
    /\ article_list' = Append(article_list,
                              [id |-> handler[t].article_id,
                               title |-> "T", content |-> "x"])
    /\ handler' = [handler EXCEPT ![t] = [@ EXCEPT !.pc = "send"]]
    /\ UNCHANGED <<mode, N, NR, NW, server_addresses, article_id_counter,
                   articles, next_article_id, client_write_counters, lock,
                   write_counter, req, last, nwrites, allocated, acked>>

\* client_socket.send(json.dumps({"id": article_id}).encode())
PostSend(t) ==
    /\ handler[t].pc = "send"
    /\ handler' = [handler EXCEPT ![t] = [@ EXCEPT !.pc = "done",
                                                   !.sent = handler[t].article_id]]
    /\ UNCHANGED <<mode, N, NR, NW, server_addresses, article_id_counter, article_list,
                   articles, next_article_id, client_write_counters, lock,
                   write_counter, req, last, nwrites, allocated, acked>>

NextCoordinator ==
    \E t \in Threads :
        \/ PostRead(t)
        \/ PostLoad(t)
        \/ PostStore(t)
        \/ PostAppend(t)
        \/ PostSend(t)

InitCoordinator == Init /\ mode = "sequential"

SpecCoordinator == InitCoordinator /\ [][NextCoordinator]_vars

\* ------------------------------------------------------ the three modes
Next == NextSeq \/ NextRYW \/ NextQuorum

Spec == Init /\ [][Next]_vars

\* ------------------------------------------------ handlers that run on
\* accept_connections starts a thread for every connection and
\* handle_connection runs handle_message to its return: a handler that can
\* take its next step (its lock can be entered, its send_message returns
\* or raises) takes it at some time.
Progress(c) ==
    \/ SeqPropagateOk(c) \/ SeqPropagateFail(c) \/ SeqRespond(c)
    \/ RywFetchOk(c) \/ RywFetchFail(c) \/ RywConnectAck(c) \/ RywRead(c)
    \/ RywAllocOk(c) \/ RywAllocFail(c) \/ RywAppend(c)
    \/ QuorumWriteSelf(c) \/ QuorumWriteOk(c) \/ QuorumWriteFail(c)
    \/ QuorumRespond(c)

\* The three modes with post_article for the writes and read_articles for
\* the reads: reply_article and read_article_content take the same steps,
\* locks and calls of send_message as these.
NextLive ==
    \/ \E c \in ClientsOf("sequential") :
          \/ ForwardFail(c) /\ last'.kind = "post_article"
          \/ SeqAppend(c) /\ req'[c].kind = "post_article"
          \/ SeqPropagateOk(c)
          \/ SeqPropagateFail(c)
          \/ SeqRespond(c)
          \/ SeqRead(c) /\ last'.kind = "read_articles"
    \/ \E c \in ClientsOf("read_your_writes") :
          \/ RywConnect(c)
          \/ RywFetchOk(c)
          \/ RywFetchFail(c)
          \/ RywConnectAck(c)
          \/ RywRead(c) /\ last'.kind = "read_articles"
          \/ RywAllocOk(c) /\ req'[c].kind = "post_article"
          \/ RywAllocFail(c) /\ last'.kind = "post_article"
          \/ RywAppend(c)
    \/ \E s, p \in Servers : RywPropagate(s, p)
    \/ \E c \in ClientsOf("quorum") :
          \/ QuorumAlloc(c) /\ req'[c].kind = "post_article"
          \/ QuorumWriteSelf(c)
          \/ QuorumWriteOk(c)
          \/ QuorumWriteFail(c)
          \/ QuorumRespond(c)
          \/ QuorumRead(c) /\ last'.kind = "read_articles"
    \/ \E s, p \in Servers : Synchronize(s, p)

SpecLive ==
    /\ Init
    /\ [][NextLive]_vars
    /\ \A c \in Clients : WF_vars(Progress(c))

\* ------------------------------------ messages of another mode's protocol
\* handle_message for a message whose type belongs to the protocol of a
\* mode the server does not run.  `last` records the type, the server and
\* the response.
InvalidType == Error("Invalid message type for this consistency model")

Answer(kind, s, resp) ==
    last' = [NoLast EXCEPT !.kind = kind, !.srv = s, !.resp = resp]

\* the article dictionaries of a new_article message: as
\* propagate_article_sequential builds them (id, parent_id, title, content)
\* and with the client_id and write_counter of a Read-Your-Writes article
WireArticles ==
    {[id |-> i, parent_id |-> None, title |-> "T", content |-> "x"] :
        i \in 1..MaxWrites}
    \cup {Article(i, None, "T", "x", "c1", w) :
             i \in 1..MaxWrites, w \in 1..MaxWrites}

\* 'client_connect' outside Read-Your-Writes
MsgClientConnect(s) ==
    /\ mode # "read_your_writes"
    /\ Answer("client_connect", s, [type |-> "connect_ack"])
    /\ UNCHANGED <<mode, N, NR, NW, server_addresses, article_id_counter,
                   article_list, handler, articles, next_article_id,
                   client_write_counters, lock, write_counter, req,
                   nwrites, allocated, acked>>

\* 'new_article' outside Sequential: handle_new_article_read_your_writes
\* in Read-Your-Writes, where article_data['client_id'] raises KeyError
\* for a dictionary without that key and handle_connection closes the
\* connection without a response; the error in Quorum
MsgNewArticle(s) ==
    /\ mode # "sequential"
    /\ \E d \in WireArticles :
          IF mode = "quorum"
          THEN /\ Answer("new_article", s, InvalidType)
               /\ UNCHANGED <<articles, client_write_counters>>
          ELSE IF "client_id" \notin DOMAIN d
          THEN /\ Answer("new_article", s, [type |-> "none"])
               /\ UNCHANGED <<articles, client_write_counters>>
          ELSE /\ Len(articles[s]) < MaxWrites
               /\ LockFree(s)
               /\ articles' = [articles EXCEPT ![s] = Append(@, d)]
               /\ client_write_counters' =
                     [client_write_counters EXCEPT
                         ![s][d.client_id] = Max(@, d.write_counter)]
               /\ Answer("new_article", s,
                         [type |-> "article_ack", article_id |-> d.id])
    /\ UNCHANGED <<mode, N, NR, NW, server_addresses, article_id_counter,
                   article_list, handler, next_article_id, lock, write_counter,
                   req, nwrites, allocated, acked>>

\* 'write_article' outside Quorum
MsgWriteArticle(s) ==
    /\ mode # "quorum"
    /\ Answer("write_article", s, InvalidType)
    /\ UNCHANGED <<mode, N, NR, NW, server_addresses, article_id_counter,
                   article_list, handler, articles, next_article_id,
                   client_write_counters, lock, write_counter, req,
                   nwrites, allocated, acked>>

\* 'request_missing_articles' and 'new_articles' outside Read-Your-Writes
MsgRywOnly(s) ==
    /\ mode # "read_your_writes"
    /\ \E kind \in {"request_missing_articles", "new_articles"} :
          Answer(kind, s, InvalidType)
    /\ UNCHANGED <<mode, N, NR, NW, server_addresses, article_id_counter,
                   article_list, handler, articles, next_article_id,
                   client_write_counters, lock, write_counter, req,
                   nwrites, allocated, acked>>

\* 'get_next_article_id' outside Read-Your-Writes: handle_message calls
\* handle_get_next_article_id in every mode
MsgGetNextArticleId(s) ==
    /\ mode # "read_your_writes"
    /\ IF s = Coord
       THEN /\ next_article_id[s] <= MaxWrites
            /\ LockFree(s)
            /\ next_article_id' = [next_article_id EXCEPT ![s] = BumpId(@)]
            /\ allocated' = Append(allocated, next_article_id[s])
            /\ Answer("get_next_article_id", s,
                      [type |-> "next_article_id",
                       article_id |-> next_article_id[s]])
       ELSE /\ Answer("get_next_article_id", s, Error("Not coordinator"))
            /\ UNCHANGED <<next_article_id, allocated>>
    /\ UNCHANGED <<mode, N, NR, NW, server_addresses, article_id_counter,
                   article_list, handler, articles, client_write_counters, lock,
                   write_counter, req, nwrites, acked>>

NextMismatch ==
    \E s \in Servers :
        \/ MsgClientConnect(s)
        \/ MsgNewArticle(s)
        \/ MsgWriteArticle(s)
        \/ MsgRywOnly(s)
        \/ MsgGetNextArticleId(s)

SpecMismatch == Init /\ [][NextMismatch]_vars

\* -------------------------------------------------------------- claims
StrictlyIncreasing(store) ==
    \A j, k \in 1..Len(store) : j < k => store[j].id < store[k].id

NoDuplicateIds(store) ==
    \A j, k \in 1..Len(store) : j # k => store[j].id # store[k].id

\* the articles of a read response: the entries of an articles_list, the
\* article of an article_content
Returned(resp) ==
    IF resp.type = "articles_list"
      THEN {resp.articles[k] : k \in 1..Len(resp.articles)}
    ELSE IF resp.type = "article_content" THEN {resp.article}
    ELSE {}

\* C1: in Sequential mode the article list of every server, coordinator
\* and peers, is in strictly increasing id order in every reachable state,
\* and holds only articles of the coordinator's list.
C1_SequentialOrder ==
    mode = "sequential" =>
        \A s \in Servers :
            /\ StrictlyIncreasing(articles[s])
            /\ Ids(articles[s]) \subseteq Ids(articles[Coord])

\* two writes have been answered and a peer holds both articles
C1_Witness ==
    /\ mode = "sequential"
    /\ \E s \in Servers \ {Coord} : Len(articles[s]) >= 2
    /\ Cardinality(acked) >= 2

\* C2: in Read-Your-Writes mode a read_articles that server S serves to
\* client C after connect_ack for write_counter W lists every article that C
\* posted successfully with a write_counter of at most W.
C2_ReadYourWrites ==
    (mode = "read_your_writes" /\ last.kind = "read_articles") =>
        \A a \in acked :
            (a.client_id = last.client_id /\ a.write_counter <= last.write_counter)
                => \E e \in Returned(last.resp) : e.id = a.id

C4_NoDuplicateIdsQuorum ==
    mode = "quorum" => \A s \in Servers : NoDuplicateIds(articles[s])

\* C5: in Read-Your-Writes mode no server's store holds two articles with
\* the same id, in every reachable state.
C5_NoDuplicateIdsRYW ==
    mode = "read_your_writes" => \A s \in Servers : NoDuplicateIds(articles[s])

\* every copy of an article held by a server
Stored == UNION {{articles[s][k] : k \in 1..Len(articles[s])} : s \in Servers}

\* C6: in every mode, two stored articles with the same id, on one server
\* or on two, have the same parent_id, title and content, and so has every
\* article of a read response and the stored articles of its id.
C6_CopiesIdentical ==
    /\ \A a, b \in Stored : a.id = b.id => ContentEntry(a) = ContentEntry(b)
    /\ IsRead(last) =>
          \A e \in Returned(last.resp) : \A a \in Stored :
              e.id = a.id =>
                  IF last.kind = "read_articles" THEN e = ListEntry(a)
                  ELSE e = ContentEntry(a)

\* a read returns an article that two servers hold, one of them through
\* replication
C6_Witness ==
    /\ IsRead(last)
    /\ \E e \in Returned(last.resp) :
          \E s, p \in Servers :
              s # p /\ HasId(articles[s], e.id) /\ HasId(articles[p], e.id)
    /\ Cardinality({a.id : a \in Stored}) >= 2

\* C7: the ids the coordinator hands out start at 1 and each is larger than
\* every id handed out before it, whatever became of the writes.
C7_AllocationIncreasing ==
    /\ allocated # <<>> => allocated[1] = 1
    /\ \A j, k \in 1..Len(allocated) : j < k => allocated[j] < allocated[k]

\* an id was handed out after the write of an earlier id failed
C7_Witness ==
    /\ Len(allocated) >= 2
    /\ \A c \in Clients : req[c].pc = "idle"
    /\ \E k \in 1..(Len(allocated) - 1) : \A a \in acked : a.id # allocated[k]

\* the write counters of the articles of client c in a store
CountersOf(store, c) ==
    {store[k].write_counter : k \in {j \in 1..Len(store) : store[j].client_id = c}}

\* C8: in Read-Your-Writes mode, once server S has answered a write of
\* client C with post_success, the write counters of C's articles in the
\* store of S are exactly 1..m, m being the largest of them.
C8_NoCounterGap ==
    (mode = "read_your_writes" /\ IsWrite(last)
       /\ last.resp.type = "post_success") =>
        \A m \in CountersOf(articles[last.srv], last.client_id) :
            1..m \subseteq CountersOf(articles[last.srv], last.client_id)

\* C9: in every mode every stored article with a parent_id has a parent_id
\* smaller than its id.
C9_ParentBelowChild ==
    \A a \in Stored : a.parent_id # None => a.parent_id < a.id

\* C10: in Quorum mode the coordinator answers a write with post_success
\* when at least NW members of the write quorum acknowledged, and with the
\* error 'Failed to write to quorum' otherwise; at a post_success for id i
\* at least NW servers hold article i.
C10_QuorumAck ==
    (mode = "quorum" /\ IsWrite(last) /\ last.quorum # {}) =>
        /\ Cardinality(last.quorum \ last.failed) >= NW
              => last.resp = PostSuccess(last.arg)
        /\ Cardinality(last.quorum \ last.failed) < NW
              => last.resp = Error("Failed to write to quorum")
        /\ last.resp.type = "post_success" =>
              Cardinality({s \in Servers : HasId(articles[s], last.arg)}) >= NW

\* a write is answered post_success after a write that was refused
C10_Witness ==
    /\ mode = "quorum"
    /\ IsWrite(last)
    /\ last.resp.type = "post_success"
    /\ Len(allocated) = 2
    /\ Cardinality(acked) = 1

\* the ids of the writes that were answered with an error after their id
\* had been handed out: handed out, not answered post_success, not in hand
Refused ==
    {allocated[k] : k \in 1..Len(allocated)}
        \ ({a.id : a \in acked} \cup {req[c].article_id : c \in Clients})

\* C11: in Quorum mode the id of a write answered 'Failed to write to
\* quorum' is a gap for ever: no server holds an article with that id and
\* no read response returns one.
C11_RefusedIdIsGap ==
    mode = "quorum" =>
        \A i \in Refused :
            /\ \A s \in Servers : ~HasId(articles[s], i)
            /\ IsRead(last) => \A e \in Returned(last.resp) : e.id # i

\* C12: in every mode no server performs an outgoing RPC while it holds
\* its own mutex: while a request has RPCs to send on behalf of its
\* handler, the lock of the server handling it is not held by that request.
C12_NoRpcUnderLock ==
    \A c \in Clients :
        req[c].todo # <<>> => \A s \in Servers : lock[s] # c

\* C13 as stated: in Sequential mode the coordinator can return
\* post_success as soon as it has appended locally, while new_article is
\* still to be delivered to a peer.
C13_RespondsBeforePeers ==
    mode = "sequential" =>
        \A c \in Clients : req[c].pc = "prop" => ENABLED SeqRespond(c)

\* C13, amended: in Sequential mode, when the coordinator returns
\* post_success for article i, every peer whose new_article RPC did not
\* raise holds article i.
C13_RespondsAfterPropagation ==
    (mode = "sequential" /\ IsWrite(last) /\ last.resp.type = "post_success") =>
        \A p \in Servers \ last.failed : HasId(articles[p], last.arg)

C13_Witness ==
    /\ mode = "sequential"
    /\ IsWrite(last) /\ last.resp.type = "post_success"
    /\ last.failed = {2}
    /\ HasId(articles[3], last.arg)
    /\ ~HasId(articles[2], last.arg)

\* C14 as stated: in Read-Your-Writes mode a server that finds a gap on
\* client_connect can return connect_ack at once, while the fetch of the
\* missing articles is still running.
C14_AckBeforeFetch ==
    mode = "read_your_writes" =>
        \A c \in Clients : req[c].pc = "fetch" => ENABLED RywConnectAck(c)

\* C14, amended: in Read-Your-Writes mode, when a server returns
\* connect_ack, the fetch of the missing articles that the connect started
\* has finished: no request_missing_articles RPC of it is still to be sent
\* or answered.
C14_AckAfterFetch ==
    (mode = "read_your_writes" /\ last.kind = "client_connect"
        /\ last.resp.type = "connect_ack") =>
        /\ req[last.client_id].pc = "acked"
        /\ req[last.client_id].todo = <<>>

C14_Witness ==
    /\ mode = "read_your_writes"
    /\ last.kind = "client_connect" /\ last.resp.type = "connect_ack"
    /\ LET r == req[last.client_id]
       IN /\ r.lo # None
          /\ r.kind = "read"
          /\ \E k \in 1..Len(articles[r.srv]) :
                /\ articles[r.srv][k].client_id = r.client_id
                /\ articles[r.srv][k].write_counter = r.write_counter
          /\ client_write_counters[r.srv][r.client_id] = r.write_counter

\* C15: in Read-Your-Writes mode, all the articles held by the servers
\* that carry the same client_id and the same write_counter have the same
\* id, also after a write has failed and the client has written again on
\* another server.
C15_OneIdPerWrite ==
    mode = "read_your_writes" =>
        \A a, b \in Stored :
            (a.client_id = b.client_id /\ a.write_counter = b.write_counter)
                => a.id = b.id

\* the client's first write failed, its second one was accepted by
\* another server and has reached a second server
C15_Witness ==
    /\ mode = "read_your_writes"
    /\ \E c \in Clients :
          /\ \A a \in Stored : a.client_id = c => a.write_counter = 2
          /\ \E s, p \in Servers :
                /\ s # p
                /\ 2 \in CountersOf(articles[s], c)
                /\ 2 \in CountersOf(articles[p], c)

\* C16: in Read-Your-Writes mode, client_write_counters[C] on every server
\* S starts at 0 and no step (local write, new_article, new_articles,
\* fetch of missing articles) decreases it.
C16_CountersNeverDecrease ==
    /\ mode = "read_your_writes" =>
          \A s \in Servers, c \in Clients : client_write_counters[s][c] = 0
    /\ [][mode = "read_your_writes" =>
            \A s \in Servers, c \in Clients :
                client_write_counters'[s][c] >= client_write_counters[s][c]]_vars

\* two servers have reached counter 2 for a client, one of them by
\* propagation or fetch, and the third one stands at 1
C16_Witness ==
    /\ mode = "read_your_writes"
    /\ \E c \in Clients : \E s, p, q \in Servers :
          /\ s # p
          /\ client_write_counters[s][c] = 2
          /\ client_write_counters[p][c] = 2
          /\ client_write_counters[q][c] = 1

\* C17: a message whose type belongs to another mode's protocol
\* (new_article outside Sequential; new_articles, request_missing_articles,
\* get_next_article_id, client_connect outside Read-Your-Writes;
\* write_article outside Quorum) is answered with the error 'Invalid
\* message type for this consistency model' and leaves the article store,
\* the session map and next_article_id of the server as they were.
C17_MismatchRejected ==
    /\ last.kind # "none" => last.resp = InvalidType
    /\ \A s \in Servers :
          /\ articles[s] = <<>>
          /\ next_article_id[s] = 1
          /\ \A c \in Clients : client_write_counters[s][c] = 0

\* C18: in every mode, once a write has been answered post_success with
\* id i, every later read_article_content(i) that is answered
\* article_content returns the title, the content and the parent_id that
\* were posted.
C18_ReadReturnsPosted ==
    (last.kind = "read_article_content" /\ last.resp.type = "article_content") =>
        \A a \in acked :
            a.id = last.arg =>
                last.resp.article =
                    [id |-> a.id, parent_id |-> a.parent_id,
                     title |-> a.title, content |-> a.content]

\* the content of an acknowledged reply is read
C18_Witness ==
    /\ last.kind = "read_article_content"
    /\ last.resp.type = "article_content"
    /\ \E a \in acked : a.id = last.arg /\ a.parent_id # None

\* C19: in every mode, read_articles handled by server S returns every id
\* that S holds in its own store, and read_article_content(id) handled by
\* S for an id in S's store is answered article_content.
C19_ReadCoversOwnStore ==
    /\ last.kind = "read_articles" =>
          Ids(articles[last.srv]) \subseteq {e.id : e \in Returned(last.resp)}
    /\ (last.kind = "read_article_content"
            /\ HasId(articles[last.srv], last.arg)) =>
          last.resp.type = "article_content"

\* C20: in Quorum mode, once the writes have stopped and every server
\* keeps pulling from all its peers, from some time on every server holds
\* every article id that any server holds, the ids of writes that were
\* applied to a part of their write quorum included.
C20_EventuallyConverged ==
    <>[](\A s, p \in Servers : Ids(articles[s]) = Ids(articles[p]))

\* the article of a refused write has reached every server
C20_Witness ==
    /\ mode = "quorum"
    /\ Refused # {}
    /\ \A s \in Servers : Refused \subseteq Ids(articles[s])
    /\ \A c \in Clients : req[c].pc = "idle"

\* the greatest write_counter of the writes of client c answered
\* post_success, 0 when there is none
LastAcked(c) ==
    LET W == {a.write_counter : a \in {b \in acked : b.client_id = c}}
    IN IF W = {} THEN 0 ELSE CHOOSE w \in W : \A v \in W : v <= w

\* C21: in Read-Your-Writes mode, when a client has posted with counters
\* 1..k on different servers and stops, and the background propagation
\* keeps running with all peers reachable, from some time on every server
\* holds all the k articles and has client_write_counters[client] = k.
C21_EventuallyPropagated ==
    <>[](\A s \in Servers :
            /\ \A a \in acked : HasId(articles[s], a.id)
            /\ \A c \in Clients : client_write_counters[s][c] = LastAcked(c))

\* two writes accepted by different servers have reached every server
C21_Witness ==
    /\ mode = "read_your_writes"
    /\ Cardinality(acked) = 2
    /\ \A s \in Servers :
          /\ \A a \in acked : HasId(articles[s], a.id)
          /\ client_write_counters[s]["c1"] = 2
    /\ \E s, p \in Servers : articles[s][1].id = 1 /\ articles[p][1].id = 2

IsPrefix(old, new) ==
    /\ Len(old) <= Len(new)
    /\ \A k \in 1..Len(old) : new[k] = old[k]

\* C22: in every mode the store of each server is append-only: across
\* every step the article list before the step is a prefix of the list
\* after it, so that no write, reply, propagation, fetch, anti-entropy
\* pull or read removes a stored article or changes one of its fields.
C22_AppendOnly ==
    [][\A s \in Servers : IsPrefix(articles[s], articles'[s])]_vars

\* every server has appended to a store that was not empty
C22_Witness ==
    \A s \in Servers : Len(articles[s]) >= 2

\* C23: in Quorum mode every articles_list returned by read_articles is in
\* strictly ascending id order, each id at most once, whatever the order
\* and the duplicates of the stores of the read-quorum members.
C23_QuorumListSorted ==
    (mode = "quorum" /\ last.kind = "read_articles") =>
        /\ last.resp.type = "articles_list"
        /\ StrictlyIncreasing(last.resp.articles)

\* a list of two ids is returned while no server's store is in strictly
\* ascending order
C23_Witness ==
    /\ mode = "quorum"
    /\ last.kind = "read_articles"
    /\ Len(last.resp.articles) = 2
    /\ \A s \in Servers : ~StrictlyIncreasing(articles[s])

\* C24: in the Read-Your-Writes write path of src/server.py and of
\* src/ryw/server.py, a non-coordinator that cannot obtain an id from the
\* coordinator answers the error 'Failed to get article ID from
\* coordinator', appends nothing and leaves the session map as it was: no
\* article is stored without a positive id and no post_success carries
\* anything else than a positive id.
C24_AllocFailureRejected ==
    mode = "read_your_writes" =>
        /\ \A a \in Stored : a.id >= 1
        /\ (IsWrite(last) /\ last.resp.type = "post_success") =>
              last.resp.article_id >= 1

\* C25: in Sequential and Quorum mode a non-coordinator that receives
\* post_article or reply_article allocates no id and appends nothing as
\* part of handling it: the write is handled by the coordinator, whose
\* response is returned, or, when the RPC to the coordinator fails, the
\* error 'Unable to contact coordinator' is returned with the store and
\* next_article_id of every server as they were.
C25_NonCoordinatorForwards ==
    /\ [](mode \in {"sequential", "quorum"} =>
            /\ \A s \in Servers \ {Coord} : next_article_id[s] = 1
            /\ \A c \in Clients : req[c].pc # "idle" => req[c].srv = Coord
            /\ (IsWrite(last) /\ last.resp.type = "post_success") =>
                  last.srv = Coord)
    /\ [][(/\ mode \in {"sequential", "quorum"}
           /\ last'.resp = Error("Unable to contact coordinator")) =>
             /\ last'.srv # Coord
             /\ articles' = articles
             /\ next_article_id' = next_article_id]_vars

\* after an acknowledged write that server 2 holds, a write sent to
\* server 2 cannot be forwarded
C25_Witness ==
    /\ mode \in {"sequential", "quorum"}
    /\ last.resp = Error("Unable to contact coordinator")
    /\ last.srv = 2
    /\ acked # {}
    /\ articles[2] # <<>>
    /\ next_article_id[Coord] = 2

\* C26: in a started Quorum cluster every write quorum and every read
\* quorum that select_quorum can return have a server in common, for
\* every configuration the startup validation accepts.
C26_QuorumsIntersect ==
    mode = "quorum" =>
        \A w \in SelectQuorum(NW), r \in SelectQuorum(NR) :
            Range(w) \cap Range(r) # {}

\* C27: in Sequential mode with three servers and no RPC failure, the
\* first post_article, also when a client sends it to a peer, is answered
\* post_success with article_id 1, and the coordinator and both peers
\* then hold article 1 with the posted title and content.
C27_FirstPostReachesAll ==
    (\E c \in Clients :
        /\ req[c].pc = "prop" /\ req[c].kind = "post_article"
        /\ nwrites = 1)
    ~> (/\ last.kind = "post_article"
        /\ last.resp = PostSuccess(1)
        /\ \A s \in Servers :
              \E k \in 1..Len(articles[s]) :
                 articles[s][k] = Article(1, None, "T", "x", NoClient, None))

C27_Witness ==
    /\ mode = "sequential"
    /\ nwrites = 1
    /\ last.kind = "post_article"
    /\ last.resp = PostSuccess(1)
    /\ last.failed = {}
    /\ \A s \in Servers : HasId(articles[s], 1)

\* C28: in Sequential mode, when the new_article RPC for article i to peer
\* P fails, the coordinator still returns post_success for i, and P holds
\* article i in no later state, while it goes on receiving later articles.
C28_MissedArticleStaysMissed ==
    /\ [](mode = "sequential" =>
            \A c \in Clients :
                (req[c].pc = "prop" /\ req[c].todo = <<>>)
                    => ENABLED SeqRespond(c))
    /\ [](mode = "sequential" /\ IsWrite(last) /\ last.srv = Coord
            => last.resp.type = "post_success")
    /\ [][mode = "sequential" =>
            \A p \in Servers \ {Coord} : \A i \in 1..MaxWrites :
                (/\ i \in {allocated[k] : k \in 1..Len(allocated)}
                 /\ ~HasId(articles[p], i)
                 /\ \A c \in Clients :
                       req[c].article_id = i => p \notin Range(req[c].todo))
                    => ~HasId(articles'[p], i)]_vars

\* peer 2 missed article 1, the write was answered post_success, and
\* peer 2 has received article 2
C28_Witness ==
    /\ mode = "sequential"
    /\ \E a \in acked : a.id = 1
    /\ \A c \in Clients : req[c].pc = "idle"
    /\ ~HasId(articles[2], 1)
    /\ HasId(articles[2], 2)

\* the greatest element of a set of numbers, `low` when it is empty
Greatest(S, low) == IF S = {} THEN low ELSE CHOOSE x \in S : \A y \in S : y <= x

\* what C29 asks of one new_articles message with list L handled by a
\* server whose store and session map go from old, cwc to new, cwc2
NewArticlesEffect(L, old, new, cwc, cwc2) ==
    LET added == SubSeq(new, Len(old) + 1, Len(new))
    IN /\ IsPrefix(old, new)
       /\ \A j, k \in 1..Len(added) : j # k => added[j].id # added[k].id
       /\ Ids(added) = Ids(L) \ Ids(old)
       /\ \A k \in 1..Len(added) : \E j \in 1..Len(L) : L[j] = added[k]
       /\ \A c \in Clients :
             cwc2[c] = Greatest({cwc[c]} \cup CountersOf(added, c), 0)
       /\ MergeMissing(new, L) = new
       /\ CountersAfter(cwc2, Added(new, L)) = cwc2

\* C29: in Read-Your-Writes mode, handling new_articles with a list L
\* leaves the receiver's store equal to its previous store followed by
\* exactly the articles of L whose id it did not hold, each such id once
\* even if L repeats it, and sets the session counter of each client of
\* these articles to max(current, write_counter); handling the same
\* message again changes nothing.
C29_NewArticlesMerge ==
    [][(mode = "read_your_writes" /\ req' = req) =>
          \E s, p \in Servers :
             /\ s # p
             /\ \A q \in Servers \ {p} :
                   /\ articles'[q] = articles[q]
                   /\ client_write_counters'[q] = client_write_counters[q]
             /\ NewArticlesEffect(articles[s], articles[p], articles'[p],
                                  client_write_counters[p],
                                  client_write_counters'[p])]_vars

\* a server holds an id twice, and another server holds the same two ids
\* once each, the later id first
C29_Witness ==
    /\ mode = "read_your_writes"
    /\ \E s, p \in Servers :
          /\ ~NoDuplicateIds(articles[s])
          /\ Ids(articles[s]) = {1, 2}
          /\ Len(articles[p]) = 2
          /\ articles[p][1].id = 2 /\ articles[p][2].id = 1
          /\ client_write_counters[p]["c1"] = 2

\* what C30 asks of one request_missing_articles RPC that server s sends
\* to peer p for client c and the counters lo..hi
FetchEffect(s, p, c, lo, hi) ==
    LET Wanted(a) == a.client_id = c /\ a.write_counter \in lo..hi
        returned == SelectSeq(articles[p], Wanted)
    IN /\ articles'[s] = articles[s] \o returned
       /\ client_write_counters'[s] =
             [client_write_counters[s] EXCEPT
                 ![c] = Greatest({@} \cup CountersOf(returned, c), 0)]

\* C30: in Read-Your-Writes mode, a peer that answers
\* request_missing_articles(client_id = C, counters = K) returns exactly
\* the articles of its store whose client_id is C and whose write_counter
\* is in K and changes neither its store nor its session map; the
\* requesting server appends the articles returned and raises its session
\* counter for C to the greatest counter returned (it keeps a counter that
\* is already greater).
C30_MissingArticlesFetch ==
    [][\A c \in Clients :
          (/\ mode = "read_your_writes"
           /\ req[c].pc = "fetch" /\ req'[c].pc = "fetch"
           /\ req'[c] # req[c]) =>
             LET r == req[c]
                 s == r.srv
                 p == Head(r.todo)
             IN /\ \A q \in Servers \ {s} :
                      /\ articles'[q] = articles[q]
                      /\ client_write_counters'[q] = client_write_counters[q]
                /\ \/ /\ articles'[s] = articles[s]
                      /\ client_write_counters'[s] = client_write_counters[s]
                   \/ FetchEffect(s, p, c, r.lo, r.write_counter)]_vars

\* a fetch for a read is under way and has brought the article of the
\* client's last write to the requesting server
C30_Witness ==
    /\ mode = "read_your_writes"
    /\ \E c \in Clients :
          LET r == req[c]
          IN /\ r.pc = "fetch" /\ r.kind = "read"
             /\ Len(r.todo) < 2
             /\ r.write_counter \in CountersOf(articles[r.srv], c)
             /\ client_write_counters[r.srv][c] = r.write_counter

\* C31: in Read-Your-Writes mode, in every reachable state and for every
\* server S and client C, client_write_counters[C] on S is the greatest
\* write_counter among the articles of C in S's store, 0 if S holds none.
C31_CounterIsGreatestHeld ==
    mode = "read_your_writes" =>
        \A s \in Servers, c \in Clients :
            client_write_counters[s][c] = Greatest(CountersOf(articles[s], c), 0)

\* a server holds the client's second article only, another one both,
\* and the third only the first
C31_Witness ==
    /\ mode = "read_your_writes"
    /\ \E s, p, q \in Servers :
          /\ CountersOf(articles[s], "c1") = {2}
          /\ CountersOf(articles[p], "c1") = {1, 2}
          /\ CountersOf(articles[q], "c1") = {1}
          /\ client_write_counters[s]["c1"] = 2
          /\ client_write_counters[q]["c1"] = 1

\* C32: in Quorum mode, when an RPC to a member of the read quorum fails,
\* read_articles still returns an articles_list built from the members
\* that responded, and an RPC failure to a member of the write quorum is
\* counted as a missing acknowledgment: the handler returns post_success
\* or the error 'Failed to write to quorum' as the count decides.
C32_QuorumRpcFailureTolerated ==
    mode = "quorum" =>
        /\ (last.kind = "read_articles" /\ last.failed # {}) =>
              /\ last.resp.type = "articles_list"
              /\ \A e \in Returned(last.resp) :
                    \E s \in Servers \ last.failed : HasId(articles[s], e.id)
        /\ (IsWrite(last) /\ last.srv = Coord /\ last.failed # {}) =>
              /\ last.failed \subseteq last.quorum
              /\ last.resp =
                    IF Cardinality(last.quorum \ last.failed) >= NW
                    THEN PostSuccess(last.arg)
                    ELSE Error("Failed to write to quorum")

\* a read one of whose RPCs failed returns the article held by the member
\* that responded
C32_Witness ==
    /\ mode = "quorum"
    /\ last.kind = "read_articles"
    /\ last.failed # {}
    /\ Len(last.resp.articles) >= 1

\* a step of a handler that calls send_message, or that follows a call of
\* send_message that raised, can be taken
SendsRpc ==
    \/ \E c \in Clients :
          \/ ENABLED ForwardFail(c)
          \/ ENABLED SeqPropagateOk(c)
          \/ ENABLED SeqPropagateFail(c)
          \/ ENABLED RywFetchOk(c)
          \/ ENABLED RywFetchFail(c)
          \/ ENABLED RywAllocFail(c)
          \/ ENABLED QuorumWriteOk(c)
          \/ ENABLED QuorumWriteFail(c)
    \/ \E s, p \in Servers : ENABLED RywPropagate(s, p)
    \/ \E s, p \in Servers : ENABLED Synchronize(s, p)

\* C33: in a cluster of one server, which is the coordinator (Quorum with
\* N = NR = NW = 1), in every mode: every post_article or reply_article is
\* answered post_success and its article is in the server's store when
\* the response is produced; every read_articles returns every article
\* acknowledged before it; the server has no peer to send a message to at
\* any point of either handler, and no RPC has failed.
C33_SingleServerIsLocal ==
    /\ IsWrite(last) =>
          /\ last.resp = PostSuccess(last.arg)
          /\ HasId(articles[Coord], last.arg)
    /\ last.kind = "read_articles" =>
          /\ last.resp.type = "articles_list"
          /\ \A a \in acked : \E e \in Returned(last.resp) : e.id = a.id
    /\ \A c \in Clients : \A k \in 1..Len(req[c].todo) : req[c].todo[k] = Coord
    /\ last.failed = {}
    /\ ~SendsRpc

C33_Witness ==
    /\ last.kind = "read_articles"
    /\ Cardinality(acked) = 2
    /\ Len(last.resp.articles) = 2

\* C34: in every mode and every reachable state the ids the coordinator
\* has allocated are exactly 1..next_article_id-1, each allocated once;
\* every id stored on any server is one of them; next_article_id of every
\* server other than the coordinator is 1.
C34_IdsAreDensePrefix ==
    LET n == next_article_id[Coord]
    IN /\ {allocated[k] : k \in 1..Len(allocated)} = 1..(n - 1)
       /\ Len(allocated) = n - 1
       /\ \A s \in Servers : Ids(articles[s]) \subseteq 1..(n - 1)
       /\ \A s \in Servers \ {Coord} : next_article_id[s] = 1

C34_Witness ==
    /\ next_article_id[Coord] = MaxWrites + 1
    /\ \E s \in Servers \ {Coord} : HasId(articles[s], MaxWrites)
    /\ \E s \in Servers : ~HasId(articles[s], 1)

\* C35: in every mode, with every server running and every RPC answered or
\* failed, every request a handler has started on (post_article,
\* reply_article, read_articles, read_article_content, client_connect) is
\* answered at some time, and every lock that is held is released at some
\* time, so that a handler waiting to enter it enters: no interleaving of
\* requests, fan-out and background replication leaves handlers waiting
\* on each other for ever.
C35_EveryRequestAnswered ==
    /\ \A c \in Clients : (req[c].pc # "idle") ~> (req[c].pc = "idle")
    /\ \A s \in Servers : (lock[s] # Free) ~> (lock[s] = Free)

C35_Witness ==
    /\ mode = "sequential"
    /\ \E c \in Clients :
          /\ lock[Coord] = c
          /\ req[c].pc = "prop" /\ Len(req[c].todo) = 1
          /\ req[c].acks = {}
    /\ Len(articles[Coord]) = 2

\* C36: in Read-Your-Writes mode, in every reachable state, for every
\* server S and client C: when client_write_counters[C] on S is m, S holds
\* an article of C for every counter in 1..m that an article of C stored
\* anywhere in the cluster carries.
C36_CounterCoversEarlierWrites ==
    mode = "read_your_writes" =>
        \A s \in Servers, c \in Clients :
            \A k \in 1..client_write_counters[s][c] :
                (\E a \in Stored : a.client_id = c /\ a.write_counter = k)
                    => k \in CountersOf(articles[s], c)

\* the store, the session map and next_article_id of server q are left as
\* they are
SameAt(q) ==
    /\ articles'[q] = articles[q]
    /\ client_write_counters'[q] = client_write_counters[q]
    /\ next_article_id'[q] = next_article_id[q]

\* C37: a read changes no server state.  The step that answers
\* read_articles or read_article_content, in any mode, leaves the store,
\* the session map and next_article_id of every server as they are (a
\* Quorum read adds nothing to the reader's store); the peer that answers
\* request_missing_articles during a client_connect, and the peer that
\* answers get_articles of synchronize, is left as it is: the articles go
\* to the server that asked, and to no other.
C37_ReadsChangeNothing ==
    [][ /\ IsRead(last') => \A q \in Servers : SameAt(q)
        /\ \A c \in Clients :
              (req[c].pc = "fetch" /\ req'[c].pc = "fetch"
                 /\ Len(req'[c].todo) < Len(req[c].todo)) =>
                  \A q \in Servers \ {req[c].srv} : SameAt(q)
        /\ (mode = "quorum" /\ req' = req /\ articles' # articles) =>
              \E s \in Servers :
                  /\ \A q \in Servers \ {s} : SameAt(q)
                  /\ \E p \in Servers \ {s} :
                        Ids(articles'[s]) = Ids(articles[s]) \cup Ids(articles[p])
      ]_vars

C37_Witness ==
    /\ mode = "quorum"
    /\ last.kind = "read_articles"
    /\ \E e \in Returned(last.resp) : ~HasId(articles[last.srv], e.id)

\* C38: in Read-Your-Writes mode a client_connect of client C on server S
\* changes neither store nor session map by itself.  When the declared
\* write_counter is at most the counter S has for C, no peer is asked
\* (no request_missing_articles is sent), and the next step answers
\* connect_ack with store and session map as they were.  When it is
\* greater, the counters asked for are the stored counter + 1 up to the
\* declared write_counter: every article a peer sends is of C with a
\* counter in that range.
C38_ConnectFetchesOnlyTheGap ==
    /\ [](mode = "read_your_writes" =>
            \A c \in Clients :
                req[c].pc = "connected" =>
                    /\ req[c].todo = <<>>
                    /\ ~ENABLED RywFetchOk(c)
                    /\ ~ENABLED RywFetchFail(c)
                    /\ ENABLED RywConnectAck(c))
    /\ [][mode = "read_your_writes" =>
            \A c \in Clients :
                LET r == req'[c]
                    s == r.srv
                    stored == client_write_counters[s][c]
                IN /\ (req[c].pc = "idle" /\ r.pc \in {"fetch", "connected"}) =>
                        /\ articles' = articles
                        /\ client_write_counters' = client_write_counters
                        /\ r.pc = "connected" <=> r.write_counter <= stored
                        /\ r.pc = "fetch" =>
                              /\ r.lo = stored + 1
                              /\ r.todo = Others(s)
                   /\ (req[c].pc = "connected" /\ r # req[c]) =>
                        /\ r.pc = "acked"
                        /\ last'.resp = [type |-> "connect_ack"]
                        /\ articles' = articles
                        /\ client_write_counters' = client_write_counters
                   /\ (req[c].pc = "fetch" /\ r.pc = "fetch"
                         /\ Len(r.todo) < Len(req[c].todo)) =>
                        /\ IsPrefix(articles[s], articles'[s])
                        /\ \A k \in (Len(articles[s]) + 1)..Len(articles'[s]) :
                              /\ articles'[s][k].client_id = c
                              /\ articles'[s][k].write_counter
                                    \in req[c].lo..req[c].write_counter
      ]_vars

C38_Witness ==
    /\ mode = "read_your_writes"
    /\ \E c \in Clients :
          /\ req[c].pc = "connected"
          /\ req[c].write_counter = MaxWrites
          /\ client_write_counters[req[c].srv][c] = MaxWrites
          /\ CountersOf(articles[req[c].srv], c) = 1..MaxWrites

\* C39: in the Coordinator of Sequential/coordinator.py, two post requests
\* handled concurrently never receive the same article id.
C39_ConcurrentPostsDistinctIds ==
    \A t, u \in Threads :
        (t # u /\ handler[t].pc = "done" /\ handler[u].pc = "done") =>
            handler[t].sent # handler[u].sent

====
